---- MODULE Spec2Model ----
(***************************************************************************)
(* State-machine model of atom_s3_gyro_gps.ino (AtomS3 Gyroflow logger).   *)
(*                                                                         *)
(* One action per entry point of the sketch: Setup is setup(), Loop is one *)
(* pass of loop() with everything it calls (menu handling, start/stop of a *)
(* recording, keep-alive pulse, sampling, buffer flush, low-power check).  *)
(* The SD card, the IMU, the button and the passing of time are the        *)
(* environment: SdFault/SdRecover switch whether SD.open succeeds, and the *)
(* button reading and the time since the previous pass are inputs of Loop. *)
(*                                                                         *)
(* Every function of the sketch is an operator from a state record to a    *)
(* state record, named as in the source; State packs the variables into    *)
(* that record and Commit unpacks the result.                              *)
(***************************************************************************)
EXTENDS Integers, Sequences, FiniteSets, TLC

VARIABLES
    pc,                 \* "off" before setup() has run, "run" afterwards
    sdCardAvailable,    \* bool sdCardAvailable
    recordingActive,    \* bool recordingActive
    gyroEnabled,        \* bool gyroEnabled
    gpsEnabled,         \* bool gpsEnabled
    lowPowerMode,       \* bool lowPowerMode
    currentMenu,        \* uint8_t currentMenu
    menuSelection,      \* uint8_t menuSelection
    gyroBuffer,         \* GyroData gyroBuffer[GYRO_BUFFER_SIZE]
    bufferIndex,        \* int bufferIndex
    bufferFull,         \* bool bufferFull
    lastGyroLogTime,    \* unsigned long lastGyroLogTime (us)
    lastActivityTime,   \* unsigned long lastActivityTime (ms)
    lastKeepAliveTime,  \* unsigned long lastKeepAliveTime (ms)
    logFile,            \* File logFile: the one file handle of the sketch
    disk,               \* the SD card: per path, whether it exists and its lines
    sdOpenFails,        \* environment: SD.open currently fails
    imuOk,              \* environment: M5.Imu.begin() succeeds
    imuAsleep,          \* hardware: the MPU6886 was last commanded to sleep
    gpsSerialOn,        \* hardware: GPSSerial is begun (not ended)
    imu,                \* hardware: what the MPU6886 reads now (gx,gy,gz,ax,ay,az)
    clockOffset,        \* system clock (gettimeofday) minus time since power-on, us
    timeSet,            \* bool timeSet
    now,                \* true time since power-on, in microseconds
    nextId,             \* history: number of samples taken so far
    appended,           \* history: every record ever stored in gyroBuffer
    sampledAt,          \* history: the true time (us) each sample was taken
    written,            \* history: every data row ever printed to a file
    sessionRecs,        \* history: records sampled since the last startRecording
    sessionClean,       \* history: SD available and no open refused since then
    fresh,              \* history: ids sampled since an SD.open was last refused
    passes              \* history: loop passes that took no sample

vars == <<pc, sdCardAvailable, recordingActive, gyroEnabled, gpsEnabled,
          lowPowerMode, currentMenu, menuSelection, gyroBuffer, bufferIndex,
          bufferFull, lastGyroLogTime, lastActivityTime, lastKeepAliveTime,
          logFile, disk, sdOpenFails, imuOk, imuAsleep, gpsSerialOn, imu,
          clockOffset, timeSet, now,
          nextId, appended, sampledAt, written, sessionRecs, sessionClean, fresh, passes>>

----------------------------------------------------------------------------
(* Bounds of the model.                                                    *)

\* GYRO_BUFFER_SIZE is 1000 in the source (line 39); scaled down.
GYRO_BUFFER_SIZE == 3
\* Samples taken in one run.
MaxSamples == 4
\* Loop passes that take no sample (button presses, idle passes).
MaxPasses == 4
\* unsigned long is 32 bits in the source; the counters wrap at this value.
ULONG_WRAP == 1048576

(* Constants of the sketch.                                                *)
GYRO_LOG_INTERVAL == 1000
KEEP_ALIVE_INTERVAL == 25000
BATTERY_SAVE_DELAY == 30000
MENU_NONE == 0
MENU_MAIN == 1
MENU_SETTINGS == 2
LOG_FILENAME == "/GYRODATA.CSV"
CSV_HEADER == "timestamp,gyro_x,gyro_y,gyro_z,accl_x,accl_y,accl_z"
FILE_WRITE == "w"
FILE_APPEND == "a"

\* Paths on the card: the sketch's log and a numbered log of the naming
\* scheme (00001.csv, ...) that may be there from before.
NUMBERED_LOG == "/00001.CSV"
\* The calibration file of the calibration store.
CALIB_FILENAME == "/CALIB.TXT"
Paths == {LOG_FILENAME, NUMBERED_LOG, CALIB_FILENAME}

\* Time between two passes of loop() (us) while a recording is active: half
\* a sampling period (two such passes make exactly one period), and a stall
\* of over one second (a slow flush, a display update). While idle, one
\* period per pass.
Delays == {500, 1000500}
IdleDelays == {1000}

\* What the IMU reads, in deg/s and g: at rest, and turning.
AtRest == <<0, 0, 0, 0, 0, 1>>
Turning == <<2, -1, 0, 0, 0, 1>>

\* What GPSSerial delivers in a pass: nothing, a sentence without a valid
\* time, a sentence that makes gps.time and gps.date valid.
GpsInputs == {"none", "sentence", "fix"}
\* The wall-clock time at power-on, us (scaled: a real one is of 10^15).
WALL_AT_BOOT == 50300000

\* What M5.BtnA reports in a pass: nothing, wasPressed(), pressedFor(1000).
Buttons == {"none", "short", "long"}

----------------------------------------------------------------------------
(* Values.                                                                 *)

\* Sensor values are integers in millionths of the unit (the six decimals of
\* logFile.print(x, 6)): deg/s or mrad/s for the gyro, g for the accel.
Micro(x) == x * 1000000
\* GYRO_SCALE_FACTOR (1000 * pi / 180), in millionths.
GYRO_SCALE_MICRO == 17453293
NoVals == <<0, 0, 0, 0, 0, 0>>
ZeroRec == [id |-> 0, timestamp |-> 0, vals |-> NoVals]
TextLine(x) ==
    [kind |-> "text", text |-> x, id |-> 0, timestamp |-> 0, vals |-> NoVals]
\* A data row as writeGyroBufferToSD prints it: the record's fields.
RowLine(r) ==
    [kind |-> "row", text |-> "", id |-> r.id, timestamp |-> r.timestamp,
     vals |-> r.vals]
NoFile == [exists |-> FALSE, lines |-> <<>>]
FileOf(ls) == [exists |-> TRUE, lines |-> ls]
\* A log left on the card by an earlier run.
OldLog == FileOf(<<TextLine(CSV_HEADER), TextLine("earlier recording")>>)
Closed == [open |-> FALSE, path |-> ""]

State ==
    [pc |-> pc, sdCardAvailable |-> sdCardAvailable,
     recordingActive |-> recordingActive, gyroEnabled |-> gyroEnabled,
     gpsEnabled |-> gpsEnabled, lowPowerMode |-> lowPowerMode,
     currentMenu |-> currentMenu, menuSelection |-> menuSelection,
     gyroBuffer |-> gyroBuffer, bufferIndex |-> bufferIndex,
     bufferFull |-> bufferFull, lastGyroLogTime |-> lastGyroLogTime,
     lastActivityTime |-> lastActivityTime,
     lastKeepAliveTime |-> lastKeepAliveTime, logFile |-> logFile,
     disk |-> disk, sdOpenFails |-> sdOpenFails, imuOk |-> imuOk,
     imuAsleep |-> imuAsleep, gpsSerialOn |-> gpsSerialOn, imu |-> imu,
     clockOffset |-> clockOffset, timeSet |-> timeSet, now |-> now,
     nextId |-> nextId, appended |-> appended, sampledAt |-> sampledAt,
     written |-> written,
     sessionRecs |-> sessionRecs, sessionClean |-> sessionClean,
     fresh |-> fresh, passes |-> passes]

Commit(s) ==
    /\ pc' = s.pc
    /\ sdCardAvailable' = s.sdCardAvailable
    /\ recordingActive' = s.recordingActive
    /\ gyroEnabled' = s.gyroEnabled
    /\ gpsEnabled' = s.gpsEnabled
    /\ lowPowerMode' = s.lowPowerMode
    /\ currentMenu' = s.currentMenu
    /\ menuSelection' = s.menuSelection
    /\ gyroBuffer' = s.gyroBuffer
    /\ bufferIndex' = s.bufferIndex
    /\ bufferFull' = s.bufferFull
    /\ lastGyroLogTime' = s.lastGyroLogTime
    /\ lastActivityTime' = s.lastActivityTime
    /\ lastKeepAliveTime' = s.lastKeepAliveTime
    /\ logFile' = s.logFile
    /\ disk' = s.disk
    /\ sdOpenFails' = s.sdOpenFails
    /\ imuOk' = s.imuOk
    /\ imuAsleep' = s.imuAsleep
    /\ gpsSerialOn' = s.gpsSerialOn
    /\ imu' = s.imu
    /\ clockOffset' = s.clockOffset
    /\ timeSet' = s.timeSet
    /\ now' = s.now
    /\ nextId' = s.nextId
    /\ appended' = s.appended
    /\ sampledAt' = s.sampledAt
    /\ written' = s.written
    /\ sessionRecs' = s.sessionRecs
    /\ sessionClean' = s.sessionClean
    /\ fresh' = s.fresh
    /\ passes' = s.passes

----------------------------------------------------------------------------
(* Time: millis(), micros(), delay(), unsigned subtraction.                *)

\* Mutant of USub: the difference is taken without the wrap of unsigned long.
USub_NoWrap(a, b) == a - b

USub(a, b) == (a - b) % ULONG_WRAP
millis(s) == (s.now \div 1000) % ULONG_WRAP
micros(s) == s.now % ULONG_WRAP
delay(s, ms) == [s EXCEPT !.now = @ + ms * 1000]
\* gettimeofday(): microseconds of the system clock.
getCurrentMicros(s) == s.now + s.clockOffset

\* The time a GPS sentence carries: the wall clock in whole seconds
\* (syncTimeFromGPS drops the centiseconds).
GpsSeconds(s) == (WALL_AT_BOOT + s.now) \div 1000000
\* settimeofday({tv_sec = t, tv_usec = 0}) from the sentence just decoded.
syncTimeFromGPS(s) ==
    [s EXCEPT !.clockOffset = Micro(GpsSeconds(s)) - s.now, !.timeSet = TRUE]

----------------------------------------------------------------------------
(* The SD library as the sketch uses it.                                   *)

SD_exists(s, path) == s.disk[path].exists
SD_remove(s, path) == [s EXCEPT !.disk[path] = NoFile]
\* SD.open: FILE_WRITE ("w") creates or truncates, FILE_APPEND ("a") creates
\* or keeps. A refused open yields a File that tests false.
SD_open(s, path, mode) ==
    IF s.sdOpenFails
    THEN [s EXCEPT !.logFile = Closed, !.sessionClean = FALSE, !.fresh = {}]
    ELSE [s EXCEPT !.logFile = [open |-> TRUE, path |-> path],
                   !.disk[path] = IF mode = FILE_WRITE \/ ~@.exists
                                  THEN FileOf(<<>>) ELSE @]
File_print(s, ls) ==
    [s EXCEPT !.disk[s.logFile.path].lines = @ \o ls,
              !.written = @ \o SelectSeq(ls, LAMBDA l : l.kind = "row")]
File_close(s) == [s EXCEPT !.logFile = Closed]

----------------------------------------------------------------------------
(* Sensor power control.                                                   *)

\* M5.Imu.begin(): succeeds when the IMU answers, and leaves it awake.
Imu_begin(s) == IF s.imuOk THEN [s EXCEPT !.imuAsleep = FALSE] ELSE s

setGyroEnabled(s, enable) ==
    IF enable /\ ~s.gyroEnabled
    THEN IF s.imuOk THEN [Imu_begin(s) EXCEPT !.gyroEnabled = TRUE] ELSE s
    ELSE IF ~enable /\ s.gyroEnabled
         THEN [s EXCEPT !.imuAsleep = TRUE, !.gyroEnabled = FALSE]
         ELSE s

setGpsEnabled(s, enable) ==
    IF enable /\ ~s.gpsEnabled
    THEN [s EXCEPT !.gpsSerialOn = TRUE, !.gpsEnabled = TRUE]
    ELSE IF ~enable /\ s.gpsEnabled
         THEN [s EXCEPT !.gpsSerialOn = FALSE, !.gpsEnabled = FALSE]
         ELSE s

setLowPowerMode(s, enable) ==
    IF enable /\ ~s.lowPowerMode THEN [s EXCEPT !.lowPowerMode = TRUE]
    ELSE IF ~enable /\ s.lowPowerMode THEN [s EXCEPT !.lowPowerMode = FALSE]
    ELSE s

\* The pulse holds the load for delay(200).
keepTailBatAlive(s) == delay(s, 200)

----------------------------------------------------------------------------
(* The log file.                                                           *)

writeGyroflowCsvHeader(s) ==
    IF ~s.sdCardAvailable THEN s
    ELSE LET s1 == SD_open(s, LOG_FILENAME, FILE_WRITE) IN
         IF ~s1.logFile.open THEN s1
         ELSE File_close(File_print(s1, <<TextLine(CSV_HEADER)>>))

\* The rows of one flush: count records from startIdx, around the ring.
BufferRows(s) ==
    LET count == IF s.bufferFull THEN GYRO_BUFFER_SIZE ELSE s.bufferIndex
        startIdx == IF s.bufferFull THEN s.bufferIndex ELSE 0
    IN [i \in 1..count |->
           RowLine(s.gyroBuffer[(startIdx + i - 1) % GYRO_BUFFER_SIZE])]

\* Mutant of writeGyroBufferToSD: a refused open ends the recording.
writeGyroBufferToSD_GiveUp(s) ==
    IF ~s.sdCardAvailable \/ (~s.bufferFull /\ s.bufferIndex = 0) THEN s
    ELSE LET s1 == SD_open(s, LOG_FILENAME, FILE_APPEND) IN
         IF ~s1.logFile.open THEN [s1 EXCEPT !.recordingActive = FALSE]
         ELSE LET s2 == File_close(File_print(s1, BufferRows(s1))) IN
              [s2 EXCEPT !.bufferIndex = 0, !.bufferFull = FALSE]

\* Mutant of writeGyroBufferToSD: the buffer is not reset after the write.
writeGyroBufferToSD_NoReset(s) ==
    IF ~s.sdCardAvailable \/ (~s.bufferFull /\ s.bufferIndex = 0) THEN s
    ELSE LET s1 == SD_open(s, LOG_FILENAME, FILE_APPEND) IN
         IF ~s1.logFile.open THEN s1
         ELSE File_close(File_print(s1, BufferRows(s1)))

writeGyroBufferToSD(s) ==
    IF ~s.sdCardAvailable \/ (~s.bufferFull /\ s.bufferIndex = 0) THEN s
    ELSE LET s1 == SD_open(s, LOG_FILENAME, FILE_APPEND) IN
         IF ~s1.logFile.open THEN s1
         ELSE [File_close(File_print(s1, BufferRows(s1)))
                  EXCEPT !.bufferIndex = 0, !.bufferFull = FALSE]

startRecording(s) ==
    LET s0 == [s EXCEPT !.sessionRecs = <<>>,
                        !.sessionClean = s.sdCardAvailable]
        s1 == IF s0.sdCardAvailable
              THEN writeGyroflowCsvHeader(
                       IF SD_exists(s0, LOG_FILENAME)
                       THEN SD_remove(s0, LOG_FILENAME) ELSE s0)
              ELSE s0
        s2 == [s1 EXCEPT !.bufferIndex = 0, !.bufferFull = FALSE]
    IN IF ~s2.gyroEnabled THEN setGyroEnabled(s2, TRUE) ELSE s2

\* Mutant of stopRecording: the rest of the buffer is not written.
stopRecording_NoFlush(s) == s

stopRecording(s) == writeGyroBufferToSD(s)

\* Mutant of readAndBufferGyroData: the fields found in the calibration file
\* are subtracted, as many as there are.
readAndBufferGyroData_PartialCalib(s) ==
    IF ~s.gyroEnabled THEN s
    ELSE LET f == s.disk[CALIB_FILENAME]
             offs == IF f.exists /\ f.lines # <<>> THEN f.lines[1].vals
                     ELSE <<>>
             raw == <<s.imu[1] * GYRO_SCALE_MICRO, s.imu[2] * GYRO_SCALE_MICRO,
                      s.imu[3] * GYRO_SCALE_MICRO, Micro(s.imu[4]),
                      Micro(s.imu[5]), Micro(s.imu[6])>>
             r == [id |-> s.nextId + 1, timestamp |-> getCurrentMicros(s),
                   vals |-> [k \in 1..6 |-> IF k <= Len(offs)
                                            THEN raw[k] - offs[k] ELSE raw[k]]]
             i == (s.bufferIndex + 1) % GYRO_BUFFER_SIZE
         IN [s EXCEPT !.gyroBuffer[s.bufferIndex] = r,
                      !.bufferIndex = i,
                      !.bufferFull = IF i = 0 THEN TRUE ELSE @,
                      !.nextId = @ + 1,
                      !.appended = Append(@, r),
                      !.sampledAt = Append(@, s.now),
                      !.sessionRecs = Append(@, r),
                      !.fresh = @ \cup {r.id}]

\* Mutant of readAndBufferGyroData: the write position is not reduced modulo
\* the capacity.
readAndBufferGyroData_NoWrap(s) ==
    IF ~s.gyroEnabled THEN s
    ELSE LET r == [id |-> s.nextId + 1, timestamp |-> getCurrentMicros(s),
                   vals |-> NoVals]
             i == s.bufferIndex + 1
         IN [s EXCEPT !.gyroBuffer =
                          [k \in DOMAIN @ |-> IF k = s.bufferIndex THEN r ELSE @[k]],
                      !.bufferIndex = i,
                      !.bufferFull = IF i = GYRO_BUFFER_SIZE THEN TRUE ELSE @,
                      !.nextId = @ + 1,
                      !.appended = Append(@, r),
                      !.sampledAt = Append(@, s.now),
                      !.sessionRecs = Append(@, r),
                      !.fresh = @ \cup {r.id}]

readAndBufferGyroData(s) ==
    IF ~s.gyroEnabled THEN s
    ELSE LET r == [id |-> s.nextId + 1, timestamp |-> getCurrentMicros(s),
                   vals |-> <<s.imu[1] * GYRO_SCALE_MICRO,
                              s.imu[2] * GYRO_SCALE_MICRO,
                              s.imu[3] * GYRO_SCALE_MICRO,
                              Micro(s.imu[4]), Micro(s.imu[5]),
                              Micro(s.imu[6])>>]
             i == (s.bufferIndex + 1) % GYRO_BUFFER_SIZE
         IN [s EXCEPT !.gyroBuffer[s.bufferIndex] = r,
                      !.bufferIndex = i,
                      !.bufferFull = IF i = 0 THEN TRUE ELSE @,
                      !.nextId = @ + 1,
                      !.appended = Append(@, r),
                      !.sampledAt = Append(@, s.now),
                      !.sessionRecs = Append(@, r),
                      !.fresh = @ \cup {r.id}]

----------------------------------------------------------------------------
(* The menu.                                                               *)

\* Mutant of handleMainMenuSelection: entry 0 starts a recording whatever
\* the state, instead of toggling.
handleMainMenuSelection_NoToggle(s) ==
    CASE s.menuSelection = 0 ->
           [startRecording([s EXCEPT !.recordingActive = TRUE])
               EXCEPT !.currentMenu = MENU_NONE]
      [] s.menuSelection = 1 ->
           [s EXCEPT !.currentMenu = MENU_SETTINGS, !.menuSelection = 0]
      [] s.menuSelection = 2 -> delay(s, 3000)
      [] OTHER -> [s EXCEPT !.currentMenu = MENU_NONE]

handleMainMenuSelection(s) ==
    CASE s.menuSelection = 0 ->
           LET s1 == [s EXCEPT !.recordingActive = ~@]
               s2 == IF s1.recordingActive THEN startRecording(s1)
                     ELSE stopRecording(s1)
           IN [s2 EXCEPT !.currentMenu = MENU_NONE]
      [] s.menuSelection = 1 ->
           [s EXCEPT !.currentMenu = MENU_SETTINGS, !.menuSelection = 0]
      [] s.menuSelection = 2 -> delay(s, 3000)
      [] OTHER -> [s EXCEPT !.currentMenu = MENU_NONE]

handleSettingsMenuSelection(s) ==
    CASE s.menuSelection = 0 ->
           setGyroEnabled([s EXCEPT !.gyroEnabled = ~@], ~s.gyroEnabled)
      [] s.menuSelection = 1 ->
           setGpsEnabled([s EXCEPT !.gpsEnabled = ~@], ~s.gpsEnabled)
      [] s.menuSelection = 2 ->
           setGpsEnabled(
               setGyroEnabled([s EXCEPT !.gyroEnabled = TRUE,
                                        !.gpsEnabled = TRUE], TRUE), TRUE)
      [] OTHER -> [s EXCEPT !.currentMenu = MENU_MAIN, !.menuSelection = 0]

handleMenu(s, btn) ==
    IF btn = "none" THEN s
    ELSE LET s1 == [s EXCEPT !.lastActivityTime = millis(s)] IN
         IF btn = "long" THEN [s1 EXCEPT !.menuSelection = (@ + 1) % 4]
         ELSE CASE s1.currentMenu = MENU_MAIN -> handleMainMenuSelection(s1)
                [] s1.currentMenu = MENU_SETTINGS ->
                       handleSettingsMenuSelection(s1)
                [] OTHER -> [s1 EXCEPT !.currentMenu = MENU_MAIN,
                                       !.menuSelection = 0]

----------------------------------------------------------------------------
(* setup() and loop().                                                     *)

\* sdBegin is the result of SD.begin(), imuBegin that of M5.Imu.begin().
setup(s, sdBegin, imuBegin) ==
    LET s1 == [s EXCEPT !.pc = "run", !.gpsSerialOn = TRUE,
                        !.imuOk = imuBegin, !.sdCardAvailable = sdBegin]
        s2 == IF s1.sdCardAvailable THEN writeGyroflowCsvHeader(s1) ELSE s1
        s3 == [s2 EXCEPT !.lastActivityTime = millis(s2),
                         !.lastKeepAliveTime = millis(s2)]
    IN delay(s3, 1000)

\* Mutant of SampleIfDue: a full buffer is not written out.
SampleIfDue_NoFlush(s) ==
    IF s.recordingActive /\ s.gyroEnabled
    THEN LET currentMicros == micros(s) IN
         IF USub(currentMicros, s.lastGyroLogTime) >= GYRO_LOG_INTERVAL
         THEN readAndBufferGyroData(
                  [s EXCEPT !.lastGyroLogTime = currentMicros])
         ELSE s
    ELSE s

\* Mutant of SampleIfDue: the due time advances by one period instead of
\* being set to the current time, so a stall is answered by a catch-up burst.
SampleIfDue_CatchUp(s) ==
    IF s.recordingActive /\ s.gyroEnabled
    THEN LET currentMicros == micros(s) IN
         IF USub(currentMicros, s.lastGyroLogTime) >= GYRO_LOG_INTERVAL
         THEN LET s1 == readAndBufferGyroData(
                            [s EXCEPT !.lastGyroLogTime =
                                 (@ + GYRO_LOG_INTERVAL) % ULONG_WRAP])
              IN IF s1.bufferFull THEN writeGyroBufferToSD(s1) ELSE s1
         ELSE s
    ELSE s

\* The sampling block of loop(): one sample when a period has elapsed, then
\* a flush when the buffer has just filled.
SampleIfDue(s) ==
    IF s.recordingActive /\ s.gyroEnabled
    THEN LET currentMicros == micros(s) IN
         IF USub(currentMicros, s.lastGyroLogTime) >= GYRO_LOG_INTERVAL
         THEN LET s1 == readAndBufferGyroData(
                            [s EXCEPT !.lastGyroLogTime = currentMicros])
              IN IF s1.bufferFull THEN writeGyroBufferToSD(s1) ELSE s1
         ELSE s
    ELSE s

\* The GPS block of loop(): bytes are read while gpsEnabled (and arrive only
\* while the serial port is begun); a decoded sentence counts as activity,
\* and the first valid time sets the system clock.
ReadGps(s, gps, currentMillis) ==
    IF s.gpsEnabled /\ s.gpsSerialOn /\ gps # "none"
    THEN LET s1 == [s EXCEPT !.lastActivityTime = currentMillis] IN
         IF ~s1.timeSet /\ gps = "fix"
         THEN [syncTimeFromGPS(s1) EXCEPT !.lastActivityTime = currentMillis]
         ELSE s1
    ELSE s

\* One pass of loop(): btn is what M5.update() saw, gps what GPSSerial
\* delivered, dt the time since the previous pass.
loop(s, btn, dt, gps) ==
    LET s0 == [s EXCEPT !.now = @ + dt]
        currentMillis == millis(s0)
        s1 == IF s0.currentMenu # MENU_NONE THEN handleMenu(s0, btn)
              ELSE IF btn = "short"
                   THEN [s0 EXCEPT !.currentMenu = MENU_MAIN,
                                   !.menuSelection = 0,
                                   !.lastActivityTime = currentMillis]
                   ELSE s0
        s2 == IF USub(currentMillis, s1.lastKeepAliveTime) >= KEEP_ALIVE_INTERVAL
              THEN keepTailBatAlive([s1 EXCEPT !.lastKeepAliveTime = currentMillis])
              ELSE s1
        s3 == SampleIfDue(ReadGps(s2, gps, currentMillis))
        s4 == IF ~s3.recordingActive /\ ~s3.lowPowerMode
                 /\ USub(currentMillis, s3.lastActivityTime) >= BATTERY_SAVE_DELAY
              THEN setLowPowerMode(s3, TRUE) ELSE s3
    IN IF s4.lowPowerMode THEN delay(s4, 100) ELSE s4

----------------------------------------------------------------------------
(* The state machine.                                                      *)

\* The state at power-on. On the card: the log of an earlier run or none,
\* a calibration file or none. The system clock: zero after a cold start,
\* the retained wall-clock time after a restart that keeps the RTC.
InitOf(logs, calibs, clocks) ==
    /\ pc = "off"
    /\ sdCardAvailable = FALSE
    /\ recordingActive = FALSE
    /\ gyroEnabled = TRUE
    /\ gpsEnabled = TRUE
    /\ lowPowerMode = FALSE
    /\ currentMenu = MENU_NONE
    /\ menuSelection = 0
    /\ gyroBuffer = [i \in 0..(GYRO_BUFFER_SIZE - 1) |-> ZeroRec]
    /\ bufferIndex = 0
    /\ bufferFull = FALSE
    /\ lastGyroLogTime = 0
    /\ lastActivityTime = 0
    /\ lastKeepAliveTime = 0
    /\ logFile = Closed
    /\ \E f \in logs, c \in calibs :
           disk = [p \in Paths |-> IF p = LOG_FILENAME THEN f
                                   ELSE IF p = CALIB_FILENAME THEN c
                                   ELSE NoFile]
    /\ sdOpenFails = FALSE
    /\ imuOk = FALSE
    /\ imuAsleep = FALSE
    /\ gpsSerialOn = FALSE
    /\ imu = AtRest
    /\ clockOffset \in clocks
    /\ timeSet = FALSE
    /\ now = 0
    /\ nextId = 0
    /\ appended = <<>>
    /\ sampledAt = <<>>
    /\ written = <<>>
    /\ sessionRecs = <<>>
    /\ sessionClean = FALSE
    /\ fresh = {}
    /\ passes = 0

Init == InitOf({NoFile, OldLog}, {NoFile}, {0})

\* The devices at power-on: both answer, or one of them does not.
BootOutcomes == {<<TRUE, TRUE>>, <<FALSE, TRUE>>, <<TRUE, FALSE>>}

Setup ==
    /\ pc = "off"
    /\ \E b \in BootOutcomes : Commit(setup(State, b[1], b[2]))

\* A pass that takes a sample counts against MaxSamples, any other pass
\* against MaxPasses.
LoopPassWith(btn, dt, gps) ==
    /\ pc = "run"
    /\ \E s1 \in {loop(State, btn, dt, gps)} :
          /\ IF s1.nextId > nextId THEN nextId < MaxSamples
             ELSE passes < MaxPasses
          /\ \E s2 \in {[s1 EXCEPT !.passes = IF s1.nextId > nextId
                                               THEN @ ELSE @ + 1]} :
                 Commit(s2)

\* A pass in which the GPS delivers nothing.
LoopPass(btn, dt) == LoopPassWith(btn, dt, "none")

Loop ==
    \E btn \in Buttons :
        \E dt \in (IF recordingActive THEN Delays ELSE IdleDelays) :
            LoopPass(btn, dt)

\* The card starts refusing opens (pulled, worn, file system full).
SdFault ==
    /\ pc = "run"
    /\ sdCardAvailable
    /\ ~sdOpenFails
    /\ sdOpenFails' = TRUE
    /\ UNCHANGED <<pc, sdCardAvailable, recordingActive, gyroEnabled,
                   gpsEnabled, lowPowerMode, currentMenu, menuSelection,
                   gyroBuffer, bufferIndex, bufferFull, lastGyroLogTime,
                   lastActivityTime, lastKeepAliveTime, logFile, disk, imuOk,
                   imuAsleep, gpsSerialOn, imu, clockOffset, timeSet, now,
                   nextId, appended, sampledAt,
                   written,
                   sessionRecs, sessionClean, fresh, passes>>

SdRecover ==
    /\ pc = "run"
    /\ sdOpenFails
    /\ sdOpenFails' = FALSE
    /\ UNCHANGED <<pc, sdCardAvailable, recordingActive, gyroEnabled,
                   gpsEnabled, lowPowerMode, currentMenu, menuSelection,
                   gyroBuffer, bufferIndex, bufferFull, lastGyroLogTime,
                   lastActivityTime, lastKeepAliveTime, logFile, disk, imuOk,
                   imuAsleep, gpsSerialOn, imu, clockOffset, timeSet, now,
                   nextId, appended, sampledAt,
                   written,
                   sessionRecs, sessionClean, fresh, passes>>

Next == Setup \/ Loop \/ SdFault \/ SdRecover

Spec == Init /\ [][Next]_vars

----------------------------------------------------------------------------
(* Vocabulary of the properties.                                           *)

Ids(ls) == [i \in 1..Len(ls) |-> ls[i].id]
IsPrefix(a, b) == Len(a) <= Len(b) /\ SubSeq(b, 1, Len(a)) = a
Range(f) == {f[i] : i \in DOMAIN f}
\* The records staged in gyroBuffer and not yet written, oldest first.
Pending == Ids(BufferRows(State))
\* The numbered name start() is to pick: the first one not on the card.
FirstUnusedName == IF ~disk[NUMBERED_LOG].exists THEN NUMBERED_LOG ELSE "/00002.CSV"
\* A step that runs setup().
Booting == pc = "off" /\ pc' = "run"
\* A step in which "Start/Stop Recording" is selected: the main menu shows
\* entry 0 and the selection closes it.
SelectsStartStop ==
    /\ pc = "run" /\ currentMenu = MENU_MAIN /\ menuSelection = 0
    /\ currentMenu' = MENU_NONE
StartRequested == SelectsStartStop /\ ~recordingActive
StopRequested == SelectsStartStop /\ recordingActive

----------------------------------------------------------------------------
(* C1: starting a session (and booting) never destroys an earlier          *)
(* recording: every log file on the card before the step is there          *)
(* unchanged after it, and a start puts the new session's header into the  *)
(* first unused sequentially numbered name.                                *)
C1_StartKeepsEarlierLogs ==
    [][ /\ (Booting \/ StartRequested) =>
              \A p \in Paths : disk[p].exists => disk'[p] = disk[p]
        /\ (StartRequested /\ sdCardAvailable /\ ~sdOpenFails) =>
              /\ FirstUnusedName \in Paths
              /\ disk'[FirstUnusedName].exists
              /\ ~disk[FirstUnusedName].exists ]_vars

(* C2: buffer conservation: the rows ever written, followed by the records *)
(* still staged, are exactly the records ever appended, in order, each     *)
(* once (storage being available).                                         *)
C2_BufferConservation ==
    (pc = "run" /\ sdCardAvailable) =>
        Ids(written) \o Pending = Ids(appended)

(* C3: lossy single-slot handoff: one pass of the loop takes at most one   *)
(* sample however many periods it was stalled for, any two samples are at  *)
(* least one sampling period apart (so samples <= periods elapsed), and a  *)
(* pass that takes no sample and neither starts nor stops a session leaves *)
(* the staging buffer as it was.                                           *)
C3_OneSamplePerStall ==
    [][ pc = "run" =>
          /\ Len(sampledAt') <= Len(sampledAt) + 1
          /\ \A i \in 1..(Len(sampledAt') - 1) :
                 sampledAt'[i + 1] - sampledAt'[i] >= GYRO_LOG_INTERVAL
          /\ Len(sampledAt') * GYRO_LOG_INTERVAL <= now'
          /\ (Len(sampledAt') = Len(sampledAt) /\ ~SelectsStartStop) =>
                 UNCHANGED <<gyroBuffer, bufferIndex, bufferFull>> ]_vars

\* A stall of many periods was answered by one sample, and the next sample
\* came one period later.
C3_Witness ==
    /\ Len(sampledAt) >= 3
    /\ sampledAt[2] - sampledAt[1] >= 2 * GYRO_LOG_INTERVAL
    /\ sampledAt[3] - sampledAt[2] = GYRO_LOG_INTERVAL

(* C4: a start() whose log file cannot be opened leaves the session Idle,  *)
(* leaves no file handle open and buffers no sample.                       *)
C4_FailedStartStaysIdle ==
    [][ (StartRequested /\ sdCardAvailable /\ sdOpenFails) =>
            /\ ~recordingActive'
            /\ logFile' = Closed
            /\ appended' = appended ]_vars

(* C5: with the SD card or the IMU failed at startup the session is never  *)
(* Recording.                                                              *)
C5_NoRecordingAfterDeviceFailure ==
    (pc = "run" /\ (~sdCardAvailable \/ ~imuOk)) => ~recordingActive

\* The sync interval of the durability bound: 1 s, in microseconds.
SYNC_INTERVAL == 1000000

(* C6: durability bound: after every pass of the loop of a recording whose *)
(* storage works, every sample still staged (not yet on storage) was taken *)
(* within the last sync interval.                                          *)
C6_UnsavedWithinSyncInterval ==
    [][ (pc = "run" /\ recordingActive' /\ sdCardAvailable /\ ~sdOpenFails) =>
            \A i \in 1..Len(Pending') :
                now' - sampledAt'[Pending'[i]] <= SYNC_INTERVAL ]_vars

(* C7: end-to-end completeness: once a session whose storage was         *)
(* available and whose opens all succeeded has been stopped, the log holds *)
(* the header followed by one row per sample of the session, in sampling   *)
(* order, and the staging buffer is empty.                                 *)
C7_SessionComplete ==
    (pc = "run" /\ ~recordingActive /\ sessionClean) =>
        /\ disk[LOG_FILENAME].exists
        /\ disk[LOG_FILENAME].lines =
               <<TextLine(CSV_HEADER)>>
                   \o [i \in 1..Len(sessionRecs) |-> RowLine(sessionRecs[i])]
        /\ bufferIndex = 0
        /\ ~bufferFull

\* A stopped clean session of more samples than the buffer holds.
C7_Witness ==
    /\ pc = "run" /\ ~recordingActive /\ sessionClean
    /\ Len(sessionRecs) > GYRO_BUFFER_SIZE

\* What stop() makes of the current state, called once and twice.
StopOnce == stopRecording(State)
StopTwice == stopRecording(StopOnce)

(* C8 as claimed: stop() twice leaves everything as stop() once does, and  *)
(* stop() while Idle changes nothing.                                      *)
C8_StopIdempotent ==
    pc = "run" =>
        /\ StopTwice = StopOnce
        /\ ~recordingActive => StopOnce = State

(* C8 as amended: stop() twice leaves everything as stop() once does; and  *)
(* stop() while Idle changes nothing unless an open was refused during the *)
(* session and left records in the staging buffer, which it then appends   *)
(* to the log.                                                             *)
C8_StopIdempotentUnlessRefused ==
    pc = "run" =>
        /\ StopTwice = StopOnce
        /\ (~recordingActive /\ StopOnce # State) =>
               /\ ~sessionClean
               /\ Pending # <<>>
               /\ Ids(StopOnce.written) = Ids(written) \o Pending

\* A session was stopped and its rows written; a second stop finds nothing.
C8_Witness ==
    /\ pc = "run" /\ ~recordingActive /\ sessionClean
    /\ sessionRecs # <<>>
    /\ Ids(written) = Ids(appended)
    /\ StopOnce = State

(* C9 as claimed: start() while Recording is a no-op: it leaves the log,   *)
(* the staged samples and the file handle as they are.                     *)
C9_StartWhileRecordingIsNoOp ==
    (pc = "run" /\ recordingActive) =>
        LET t == startRecording(State) IN
        /\ t.disk = disk
        /\ t.gyroBuffer = gyroBuffer
        /\ t.bufferIndex = bufferIndex
        /\ t.bufferFull = bufferFull
        /\ t.logFile = Closed

(* C9 as amended: start() is never run while Recording: selecting          *)
(* Start/Stop during a recording stops the session; that step keeps what   *)
(* the log holds (no delete, no truncate), keeps every staged sample (in   *)
(* the buffer or written to the log) and does not begin a new session; and *)
(* after every step the one log file handle is closed.                     *)
C9_ToggleStopsAndKeepsLog ==
    [][ /\ logFile' = Closed
        /\ StopRequested =>
              /\ ~recordingActive'
              /\ sessionRecs' = sessionRecs
              /\ IsPrefix(disk[LOG_FILENAME].lines, disk'[LOG_FILENAME].lines)
              /\ \A id \in Range(Pending) :
                     id \in Range(Pending') \/ id \in Range(Ids(written')) ]_vars

\* Start/Stop was selected during a recording whose flush was then refused:
\* the session is stopped, the log is there, the samples are still staged.
C9_Witness ==
    /\ pc = "run" /\ ~recordingActive /\ sdCardAvailable
    /\ sessionRecs # <<>>
    /\ disk[LOG_FILENAME].lines = <<TextLine(CSV_HEADER)>>
    /\ Pending = Ids(sessionRecs)

\* A recording runs and a sample is still to be taken: a pass of loop()
\* that comes at least one period after the last sample takes it.
SampleDue ==
    pc = "run" /\ recordingActive /\ gyroEnabled /\ nextId < MaxSamples

\* A pass of loop() does take the sample that is due: the next one, or the
\* one after it.
SamplePassPossible ==
    SampleDue =>
        \A dt \in Delays \cup {GYRO_LOG_INTERVAL} :
            \E n \in 1..2 :
                loop(State, "none", n * dt, "none").nextId = nextId + 1

SampleTaken == SampleDue /\ nextId' = nextId + 1

\* loop() is called again and again by the Arduino core and time goes on:
\* while a recording runs, a pass that samples comes sooner or later.
\* Passes that come one sampling period apart, on a card that may refuse
\* opens and recover.
LoopSteady == \E btn \in Buttons : LoopPass(btn, GYRO_LOG_INTERVAL)
NextLive == Setup \/ LoopSteady \/ SdFault \/ SdRecover
SpecLive == Init /\ [][NextLive]_vars /\ WF_nextId(SampleTaken)

\* The samples still to come fill the staging buffer once more.
BufferWillFill == nextId + (GYRO_BUFFER_SIZE - bufferIndex) <= MaxSamples

(* C10: no storage error halts recording: a pass whose flush is refused    *)
(* leaves the recording running; while a recording runs after a refused    *)
(* open, another sample is taken; and a sample taken after a refused open, *)
(* while opens succeed, is eventually written to the log (or an open is    *)
(* refused again, or the user switches the gyro off).                      *)
C10_RecordingSurvivesRefusedOpen ==
    /\ [][ (pc = "run" /\ recordingActive /\ ~SelectsStartStop) =>
               (recordingActive' /\ pc' = "run") ]_vars
    /\ \A n \in 0..(MaxSamples - 1) :
           (pc = "run" /\ recordingActive /\ gyroEnabled /\ ~sessionClean
              /\ nextId = n)
           ~> (nextId > n \/ ~recordingActive \/ ~gyroEnabled)
    /\ \A id \in 1..MaxSamples :
           (/\ pc = "run" /\ sdCardAvailable /\ ~sdOpenFails /\ ~sessionClean
            /\ id \in fresh /\ id \in Range(Pending)
            /\ BufferWillFill)
           ~> (id \in Range(Ids(written)) \/ sdOpenFails \/ ~gyroEnabled)

\* An open was refused during the session, and a sample taken after it is
\* in the log.
C10_Witness ==
    /\ pc = "run" /\ recordingActive /\ ~sessionClean /\ sdCardAvailable
    /\ \E id \in fresh : id \in Range(Ids(written))

----------------------------------------------------------------------------
\* The header of the log file format, line by line.
GYROFLOW_HEADER ==
    <<"GYROFLOW IMU LOG", "version,1.3", "id,<logger-id>",
      "description,<free text>", "orientation,YxZ", "sample_rate,1000",
      "tscale,0.000001", "gscale,0.01745329252", "ascale,1",
      "t,gx,gy,gz,ax,ay,az">>
HeaderLines == [i \in 1..Len(GYROFLOW_HEADER) |-> TextLine(GYROFLOW_HEADER[i])]

(* C11: every log file created by a start begins with the fixed multi-line *)
(* header, from 'GYROFLOW IMU LOG' to the column line 't,gx,gy,gz,ax,ay,az',*)
(* before any data row.                                                    *)
C11_LogBeginsWithGyroflowHeader ==
    [][ (StartRequested /\ sdCardAvailable /\ ~sdOpenFails) =>
            /\ disk'[LOG_FILENAME].exists
            /\ IsPrefix(HeaderLines, disk'[LOG_FILENAME].lines) ]_vars

----------------------------------------------------------------------------
(* The sensor and the calibration file.                                    *)

\* A calibration file line: its decimal fields, in millionths.
CalLine(fields) ==
    [kind |-> "cal", text |-> "", id |-> 0, timestamp |-> 0, vals |-> fields]
\* A calibration file cut off after three of its six fields.
PartialCalib == FileOf(<<CalLine(<<Micro(1), Micro(1), Micro(1)>>)>>)
\* load(): the six offsets of a well-formed file, else none.
ValidCalib(f) ==
    f.exists /\ Len(f.lines) = 1 /\ f.lines[1].kind = "cal"
             /\ Len(f.lines[1].vals) = 6
LoadedOffsets(f) == IF ValidCalib(f) THEN f.lines[1].vals ELSE NoVals

\* The device is turned, or comes to rest, during a recording.
ImuTurns ==
    /\ pc = "run" /\ recordingActive
    /\ imu' \in {AtRest, Turning} \ {imu}
    /\ UNCHANGED <<pc, sdCardAvailable, recordingActive, gyroEnabled,
                   gpsEnabled, lowPowerMode, currentMenu, menuSelection,
                   gyroBuffer, bufferIndex, bufferFull, lastGyroLogTime,
                   lastActivityTime, lastKeepAliveTime, logFile, disk,
                   sdOpenFails, imuOk, imuAsleep, gpsSerialOn, clockOffset,
                   timeSet, now, nextId, appended, sampledAt, written,
                   sessionRecs, sessionClean, fresh, passes>>

\* Recording with a sensor whose reading changes, on a card with no
\* calibration file or a malformed one; storage works.
InitSense == InitOf({NoFile}, {NoFile, PartialCalib}, {0})
NextSense == Setup \/ LoopSteady \/ ImuTurns
SpecSense == InitSense /\ [][NextSense]_vars

\* A step that takes a sample, and the record it stores.
Samples == nextId' = nextId + 1
NewRecord == appended'[Len(appended')]

(* C12: each data row carries the sample after calibration only: every     *)
(* field is the raw reading (gyro in deg/s, accel in g) minus the loaded   *)
(* offset, with no other scaling; and the rows written are the records     *)
(* stored.                                                                 *)
C12_RowsCarryCalibratedReadings ==
    [][ /\ Samples =>
              NewRecord.vals =
                  [k \in 1..6 |->
                      Micro(imu[k]) - LoadedOffsets(disk[CALIB_FILENAME])[k]]
        /\ \A i \in (Len(written) + 1)..Len(written') :
              \E j \in 1..Len(appended') :
                  written'[i] = RowLine(appended'[j]) ]_vars

(* C14: loading calibration is all-or-nothing: while the calibration file  *)
(* is missing or is not exactly six fields, the offsets applied to a       *)
(* sample are zero: a reading of zero is stored as zero, and the accel     *)
(* fields are stored as read.                                              *)
C14_NoOffsetsFromBadCalibration ==
    [][ (Samples /\ ~ValidCalib(disk[CALIB_FILENAME])) =>
            /\ \A k \in 1..6 : imu[k] = 0 => NewRecord.vals[k] = 0
            /\ \A k \in 4..6 : NewRecord.vals[k] = Micro(imu[k]) ]_vars

\* A row of a turning device was written while the card holds a calibration
\* file cut off after three fields.
C14_Witness ==
    /\ disk[CALIB_FILENAME] = PartialCalib
    /\ \E i \in 1..Len(written) :
           written[i].vals[1] # 0 /\ written[i].vals[3] = 0

----------------------------------------------------------------------------
(* The GPS time fix.                                                       *)

\* Recording while the GPS delivers sentences, after a cold start (system
\* clock at zero) or after a restart that kept the clock (the ESP32 RTC
\* timer runs on over a software, watchdog or panic reset, and setup() then
\* starts again with timeSet = false).
InitGps == InitOf({NoFile}, {NoFile}, {0, WALL_AT_BOOT})
LoopGps ==
    \E btn \in Buttons, gps \in GpsInputs :
        LoopPassWith(btn, GYRO_LOG_INTERVAL, gps)
NextGps == Setup \/ LoopGps
SpecGps == InitGps /\ [][NextGps]_vars

\* The data rows of the log, in file order.
LogRows == SelectSeq(disk[LOG_FILENAME].lines, LAMBDA l : l.kind = "row")

(* C13: the time fix never disturbs the samples: the timestamps of the     *)
(* data rows of the log are strictly increasing in file order, also when a *)
(* GPS fix sets the system clock during the session; and whether a pass    *)
(* takes a sample does not depend on what the GPS delivers.                *)
C13_TimeFixNeverDisturbsRows ==
    pc = "run" =>
        /\ \A i \in 1..(Len(LogRows) - 1) :
               LogRows[i].timestamp < LogRows[i + 1].timestamp
        /\ \A btn \in Buttons, gps \in GpsInputs :
               loop(State, btn, GYRO_LOG_INTERVAL, gps).nextId =
                   loop(State, btn, GYRO_LOG_INTERVAL, "none").nextId

----------------------------------------------------------------------------
(* C15: staging buffer bounds: the write position stays within             *)
(* 0..GYRO_BUFFER_SIZE-1; bufferFull becomes set only in a step that       *)
(* stores a sample in the last slot and wraps the position to 0; and a     *)
(* step in which a flush writes rows leaves the position at 0 and          *)
(* bufferFull false.                                                       *)
C15_BufferIndexInBounds ==
    [][ /\ bufferIndex \in 0..(GYRO_BUFFER_SIZE - 1)
        /\ bufferIndex' \in 0..(GYRO_BUFFER_SIZE - 1)
        /\ (bufferFull' /\ ~bufferFull) =>
               /\ Samples
               /\ bufferIndex = GYRO_BUFFER_SIZE - 1
               /\ bufferIndex' = 0
        /\ Len(written') > Len(written) =>
               (bufferIndex' = 0 /\ ~bufferFull') ]_vars

\* The buffer has wrapped and its flush was refused (position 0, full), with
\* a completed flush of an earlier buffer behind it.
C15_Witness ==
    /\ pc = "run" /\ recordingActive
    /\ bufferFull /\ bufferIndex = 0
    /\ written # <<>>

(* C16: a log file that holds a data row begins with the header line: no   *)
(* sequence of starts, samples, flushes and stops with refused opens gives *)
(* a file whose first line is a data row.                                  *)
C16_RowsOnlyAfterHeader ==
    pc = "run" =>
        \A p \in Paths :
            (disk[p].exists /\ \E i \in 1..Len(disk[p].lines) :
                                   disk[p].lines[i].kind = "row")
                => disk[p].lines[1] = TextLine(CSV_HEADER)

(* C18: the sensor flags agree with the hardware: gyroEnabled is false     *)
(* exactly when the IMU was last commanded to sleep, gpsEnabled is false   *)
(* exactly when the GPS serial port was last ended.                        *)
C18_FlagsAgreeWithHardware ==
    pc = "run" =>
        /\ gyroEnabled <=> ~imuAsleep
        /\ gpsEnabled <=> gpsSerialOn

----------------------------------------------------------------------------
(* Low-power mode.                                                         *)

\* The logger is left alone for BATTERY_SAVE_DELAY between two passes while
\* idle, or is polled every millisecond; a recording samples every period.
LoopIdle ==
    \E btn \in Buttons :
        \E dt \in (IF recordingActive THEN {GYRO_LOG_INTERVAL}
                   ELSE {1000, BATTERY_SAVE_DELAY * 1000}) :
            LoopPass(btn, dt)
NextPower == Setup \/ LoopIdle
SpecPower == Init /\ [][NextPower]_vars

\* A step in which the user's press is taken as activity.
UserActivity == pc = "run" /\ lastActivityTime' # lastActivityTime

(* C17: recording never runs in low-power mode (recordingActive implies    *)
(* not lowPowerMode, so no 100 ms sleep between the sample checks of a     *)
(* session), and low-power mode is left again on user activity.            *)
C17_NoRecordingInLowPower ==
    [][ /\ recordingActive' => ~lowPowerMode'
        /\ (lowPowerMode /\ UserActivity) => ~lowPowerMode' ]_vars

----------------------------------------------------------------------------
(* The sample-due check.                                                   *)

\* The true time of the previous sample (of power-on before the first), and
\* the true time at which a pass makes its due check: the end of the pass,
\* less the low-power sleep that follows the check.
LastSampleTime == IF sampledAt = <<>> THEN 0 ELSE sampledAt[Len(sampledAt)]
CheckTime == now' - (IF lowPowerMode' THEN 100000 ELSE 0)
Elapsed == CheckTime - LastSampleTime

(* C19: the sample-due check is right across the wrap of the microsecond   *)
(* counter: in a pass of a running recording, less than one counter range  *)
(* after the previous sample, a sample is taken exactly when at least      *)
(* GYRO_LOG_INTERVAL us have gone by since that sample.                    *)
C19_DueCheckAcrossWrap ==
    [][ (/\ pc = "run" /\ now' > now
         /\ recordingActive' /\ gyroEnabled'
         /\ Elapsed < ULONG_WRAP)
        => (Samples <=> Elapsed >= GYRO_LOG_INTERVAL) ]_vars

\* A sample was taken after the counter had wrapped since the previous one.
C19_Witness ==
    /\ Len(sampledAt) >= 2
    /\ LET n == Len(sampledAt) IN
       /\ sampledAt[n] \div ULONG_WRAP > sampledAt[n - 1] \div ULONG_WRAP
       /\ sampledAt[n] % ULONG_WRAP < sampledAt[n - 1] % ULONG_WRAP
       /\ sampledAt[n] - sampledAt[n - 1] < ULONG_WRAP

====
